---- MODULE Spec2Model ----
(***************************************************************************)
(* Model of scripts/deploy.py, the deployment script: argument parsing,    *)
(* release naming, tree copy, the scoped directory change (class CD),      *)
(* preprocess_release, the build / test / publish commands and the log     *)
(* entry.  Strings are sequences of one-character strings; the file system *)
(* is a function from absolute normalised paths to entries.                *)
(***************************************************************************)
EXTENDS Integers, Sequences, FiniteSets, TLC

\* ------------------------------------------------------------------ bounds

\* how many deviations from the pristine file tree the initial state may have
MaxDeviations == 1

\* how many pieces a configuration document of SpecReplace is made of
MaxPieces == 3

\* the invocations of the script: one runs in Spec, both run in SpecRace
Procs == {1, 2}

\* ----------------------------------------------------------------- strings

StartsWith(s, pre) ==
    /\ Len(pre) <= Len(s)
    /\ SubSeq(s, 1, Len(pre)) = pre

\* str.endswith
EndsWith(s, suf) ==
    /\ Len(suf) <= Len(s)
    /\ SubSeq(s, Len(s) - Len(suf) + 1, Len(s)) = suf

\* the positions at which sub occurs in s
OccurrencesOf(s, sub) ==
    {i \in 1..(Len(s) - Len(sub) + 1) : SubSeq(s, i, i + Len(sub) - 1) = sub}

Contains(s, sub) == OccurrencesOf(s, sub) # {}

DropFirst(s, n) == SubSeq(s, n + 1, Len(s))

\* a replace that stops after the first occurrence: str.replace(old, new, 1)
RECURSIVE ReplaceFirstOnly(_, _, _)
ReplaceFirstOnly(s, old, new) ==
    IF Len(s) < Len(old) THEN s
    ELSE IF StartsWith(s, old) THEN new \o DropFirst(s, Len(old))
    ELSE <<s[1]>> \o ReplaceFirstOnly(Tail(s), old, new)

\* str.replace(old, new) for a non-empty old: a left to right scan that
\* replaces each occurrence it meets and resumes after it
RECURSIVE Replace(_, _, _)
Replace(s, old, new) ==
    IF Len(s) < Len(old) THEN s
    ELSE IF StartsWith(s, old) THEN new \o Replace(DropFirst(s, Len(old)), old, new)
    ELSE <<s[1]>> \o Replace(Tail(s), old, new)

DigitChars == <<"0", "1", "2", "3", "4", "5", "6", "7", "8", "9">>

\* '%0<w>d' % n
RECURSIVE ZeroPad(_, _)
ZeroPad(n, w) ==
    IF w <= 1 /\ n < 10 THEN <<DigitChars[n + 1]>>
    ELSE ZeroPad(n \div 10, w - 1) \o <<DigitChars[(n % 10) + 1]>>

\* '%d' % n
Decimal(n) == ZeroPad(n, 1)

\* ------------------------------------------------------------------- paths

SEP == "/"

IsAbs(path) == Len(path) > 0 /\ path[1] = SEP

\* os.path.join of two parts
Join(a, b) ==
    IF IsAbs(b) THEN b
    ELSE IF a = <<>> \/ a[Len(a)] = SEP THEN a \o b
    ELSE a \o <<SEP>> \o b

Join3(a, b, c) == Join(Join(a, b), c)

Join4(a, b, c, d) == Join(Join3(a, b, c), d)

\* the index of the last separator of path, 0 if it has none
LastSep(path) ==
    LET at == {i \in 1..Len(path) : path[i] = SEP}
    IN  IF at = {} THEN 0 ELSE CHOOSE i \in at : \A j \in at : j <= i

RECURSIVE StripSeps(_)
StripSeps(s) ==
    IF s # <<>> /\ s[Len(s)] = SEP THEN StripSeps(SubSeq(s, 1, Len(s) - 1)) ELSE s

\* os.path.dirname
Dirname(path) ==
    LET head == SubSeq(path, 1, LastSep(path))
    IN  IF head # <<>> /\ \E i \in 1..Len(head) : head[i] # SEP
        THEN StripSeps(head) ELSE head

\* the components of a path, the empty ones dropped
RECURSIVE Components(_)
Components(path) ==
    IF path = <<>> THEN <<>>
    ELSE IF path[1] = SEP THEN Components(Tail(path))
    ELSE LET seps == {i \in 1..Len(path) : path[i] = SEP}
             cut  == IF seps = {} THEN Len(path) + 1
                     ELSE CHOOSE i \in seps : \A j \in seps : i <= j
         IN  <<SubSeq(path, 1, cut - 1)>> \o Components(DropFirst(path, cut - 1))

\* the absolute path string of a stack of names
RECURSIVE PathOf(_)
PathOf(stack) ==
    IF stack = <<>> THEN <<SEP>>
    ELSE IF Len(stack) = 1 THEN <<SEP>> \o stack[1]
    ELSE PathOf(SubSeq(stack, 1, Len(stack) - 1)) \o <<SEP>> \o stack[Len(stack)]

DOT == <<".">>
DOTDOT == <<".", ".">>

\* the result of a failed path lookup (no absolute path is empty)
ENOENT == <<>>

IsDir(f, abs) == abs \in DOMAIN f /\ f[abs].type = "dir"

\* the kernel's path walk: the absolute path that comps lead to from the
\* directory stack, ENOENT when a directory on the way does not exist
RECURSIVE Walk(_, _, _)
Walk(f, stack, comps) ==
    IF comps = <<>> THEN PathOf(stack)
    ELSE IF ~IsDir(f, PathOf(stack)) THEN ENOENT
    ELSE IF Head(comps) = DOT THEN Walk(f, stack, Tail(comps))
    ELSE IF Head(comps) = DOTDOT
         THEN Walk(f, SubSeq(stack, 1, Len(stack) - 1), Tail(comps))
    ELSE Walk(f, Append(stack, Head(comps)), Tail(comps))

\* the absolute path a path names for a process whose working directory is cwd
Resolve(f, cwd, path) == Walk(f, <<>>, Components(Join(cwd, path)))

\* os.path.exists
Exists(f, cwd, path) == Resolve(f, cwd, path) \in DOMAIN f

\* abs lies strictly inside the directory dir
IsUnder(abs, dir) ==
    IF dir = <<SEP>> THEN Len(abs) > 1 ELSE StartsWith(abs, dir \o <<SEP>>)

\* ------------------------------------------------------ program constants

\* 'oppiaserver', the development application identifier of app.yaml
PLACEHOLDER == <<"o", "p", "p", "i", "a", "s", "e", "r", "v", "e", "r">>

\* 'oppia', the name the project root must end with
ROOT_NAME == <<"o", "p", "p", "i", "a">>

\* '-deploy-'
DEPLOY_INFIX == <<"-", "d", "e", "p", "l", "o", "y", "-">>

APP_YAML == <<"a", "p", "p", ".", "y", "a", "m", "l">>

STATIC == <<"s", "t", "a", "t", "i", "c">>
IMAGES == <<"i", "m", "a", "g", "e", "s">>
DEPLOY_DATA == <<"d", "e", "p", "l", "o", "y", "_", "d", "a", "t", "a">>
GIT == <<".", "g", "i", "t">>

SPLASH_PAGE_FILES == <<<<"b", "a", "n", "n", "e", "r", ".", "p", "n", "g">>,
                       <<"f", "a", "v", "i", "c", "o", "n", ".", "i", "c", "o">>,
                       <<"l", "o", "g", "o", ".", "p", "n", "g">>>>

\* os.path.join('..', 'deploy.log')
LOG_FILE_PATH == Join(DOTDOT, <<"d", "e", "p", "l", "o", "y", ".", "l", "o", "g">>)

\* 'Successfully deployed to '
LOG_PREFIX == <<"S", "u", "c", "c", "e", "s", "s", "f", "u", "l", "l", "y", " ", "d", "e", "p", "l", "o", "y", "e", "d", " ", "t", "o", " ">>

\* ' at '
LOG_AT == <<" ", "a", "t", " ">>

NEWLINE == "\n"

\* the three external commands, in the order of the script
COMMANDS == <<"build", "test", "publish">>

\* --------------------------------------------------------------- datetime

\* a datetime.datetime value
Datetime(y, mo, d, h, mi, s, us) ==
    [year |-> y, month |-> mo, day |-> d, hour |-> h, minute |-> mi,
     second |-> s, microsecond |-> us]

NoDatetime == Datetime(0, 0, 0, 0, 0, 0, 0)

\* a stamp whose fields are not padded with zeros
StrftimeCompactUnpadded(dt) ==
    Decimal(dt.year) \o Decimal(dt.month) \o Decimal(dt.day) \o <<"-">>
        \o Decimal(dt.hour) \o Decimal(dt.minute) \o Decimal(dt.second)

\* strftime('%Y%m%d-%H%M%S')
StrftimeCompact(dt) ==
    ZeroPad(dt.year, 4) \o ZeroPad(dt.month, 2) \o ZeroPad(dt.day, 2) \o <<"-">>
        \o ZeroPad(dt.hour, 2) \o ZeroPad(dt.minute, 2) \o ZeroPad(dt.second, 2)

\* strftime('%Y-%m-%d %H:%M:%S')
StrftimeHuman(dt) ==
    ZeroPad(dt.year, 4) \o <<"-">> \o ZeroPad(dt.month, 2) \o <<"-">>
        \o ZeroPad(dt.day, 2) \o <<" ">> \o ZeroPad(dt.hour, 2) \o <<":">>
        \o ZeroPad(dt.minute, 2) \o <<":">> \o ZeroPad(dt.second, 2)

\* '%s-deploy-%s' % (APP_NAME, CURRENT_DATETIME.strftime('%Y%m%d-%H%M%S'))
ReleaseDirName(app, dt) == app \o DEPLOY_INFIX \o StrftimeCompact(dt)

\* os.path.join(os.getcwd(), '..', RELEASE_DIR_NAME)
ReleaseDirPath(dir, name) == Join3(dir, DOTDOT, name)

\* the line of the log entry
LogLine(app, dt) == LOG_PREFIX \o app \o LOG_AT \o StrftimeHuman(dt) \o <<NEWLINE>>

\* ------------------------------------------------------------ file system

Dir == [type |-> "dir"]
File(data) == [type |-> "file", data |-> data]

\* a tree with the entry e at the absolute path abs
WithEntry(f, abs, e) == [q \in DOMAIN f \cup {abs} |-> IF q = abs THEN e ELSE f[q]]

\* a tree without abs and everything inside it
Without(f, abs) == [q \in {r \in DOMAIN f : r # abs /\ ~IsUnder(r, abs)} |-> f[q]]

\* os.makedirs along the components of a path: every missing directory on
\* the way and the last one are created
RECURSIVE MakedirsWalk(_, _, _)
MakedirsWalk(f, stack, comps) ==
    LET here == PathOf(stack)
        g    == IF here \in DOMAIN f THEN f ELSE WithEntry(f, here, Dir)
    IN  IF comps = <<>> THEN g
        ELSE IF Head(comps) = DOT THEN MakedirsWalk(g, stack, Tail(comps))
        ELSE IF Head(comps) = DOTDOT
             THEN MakedirsWalk(g, SubSeq(stack, 1, Len(stack) - 1), Tail(comps))
        ELSE MakedirsWalk(g, Append(stack, Head(comps)), Tail(comps))

Makedirs(f, dir, path) == MakedirsWalk(f, <<>>, Components(Join(dir, path)))

\* ensure_directory_exists(f): the tree afterwards
EnsureDirectoryExists(f, dir, path) ==
    LET d == Dirname(path)
    IN  IF ~Exists(f, dir, d) THEN Makedirs(f, dir, d) ELSE f

\* shutil.ignore_patterns('.git'): no component of the relative path is .git
Ignored(rel) == \E i \in 1..Len(Components(rel)) : Components(rel)[i] = GIT

\* the tree after every entry below the directory s that is not ignored has
\* been copied below the new directory d
CopiedInto(f, s, d) ==
    LET below == {q \in DOMAIN f : IsUnder(q, s) /\ ~Ignored(DropFirst(q, Len(s)))}
        target(q) == d \o DropFirst(q, Len(s))
        made == {d} \cup {target(q) : q \in below}
    IN  [q \in DOMAIN f \cup made |->
            IF q = d THEN Dir
            ELSE IF q \in made THEN f[CHOOSE r \in below : target(r) = q]
            ELSE f[q]]

\* a tree copy that accepts an existing destination
CopyTreeOverExisting(f, dir, src, dst) ==
    IF ~IsDir(f, Resolve(f, dir, src)) \/ Resolve(f, dir, dst) = ENOENT
    THEN [ok |-> FALSE, fs |-> f]
    ELSE [ok |-> TRUE, fs |-> CopiedInto(f, Resolve(f, dir, src), Resolve(f, dir, dst))]

\* shutil.copytree(src, dst, ignore=shutil.ignore_patterns('.git')):
\* os.makedirs(dst) raises when dst exists, then the entries are copied
CopyTree(f, dir, src, dst) ==
    IF \/ ~IsDir(f, Resolve(f, dir, src))
       \/ Resolve(f, dir, dst) = ENOENT
       \/ Exists(f, dir, dst)
    THEN [ok |-> FALSE, fs |-> f]
    ELSE [ok |-> TRUE, fs |-> CopiedInto(f, Resolve(f, dir, src), Resolve(f, dir, dst))]

\* shutil.copyfile(src, dst) for an existing file src
CopyFile(f, dir, src, dst) ==
    WithEntry(f, Resolve(f, dir, dst), File(f[Resolve(f, dir, src)].data))

\* a write that opens the file with 'w' and so drops what it held
TruncateAndWrite(f, dir, path, line) ==
    WithEntry(f, Resolve(f, dir, path), File(line))

\* open(path, 'a') and one write of line: the file is created when absent
AppendToFile(f, dir, path, line) ==
    LET abs == Resolve(f, dir, path)
        old == IF abs \in DOMAIN f THEN f[abs].data ELSE <<>>
    IN  WithEntry(f, abs, File(old \o line))

\* a loop that skips a file whose source or destination is missing
RECURSIVE SubstituteImagesUnchecked(_, _, _, _)
SubstituteImagesUnchecked(f, dir, deploy_data_path, i) ==
    IF i > Len(SPLASH_PAGE_FILES) THEN [ok |-> TRUE, fs |-> f]
    ELSE LET src == Join3(deploy_data_path, IMAGES, SPLASH_PAGE_FILES[i])
             dst == Join4(dir, STATIC, IMAGES, SPLASH_PAGE_FILES[i])
         IN  IF ~Exists(f, dir, src) \/ ~Exists(f, dir, dst)
             THEN SubstituteImagesUnchecked(f, dir, deploy_data_path, i + 1)
             ELSE SubstituteImagesUnchecked(
                      CopyFile(f, dir, src, dst), dir, deploy_data_path, i + 1)

\* lines 121-132: the loop over SPLASH_PAGE_FILES, from its i-th file on
RECURSIVE SubstituteImages(_, _, _, _)
SubstituteImages(f, dir, deploy_data_path, i) ==
    IF i > Len(SPLASH_PAGE_FILES) THEN [ok |-> TRUE, fs |-> f]
    ELSE LET src == Join3(deploy_data_path, IMAGES, SPLASH_PAGE_FILES[i])
             dst == Join4(dir, STATIC, IMAGES, SPLASH_PAGE_FILES[i])
         IN  IF ~Exists(f, dir, src) THEN [ok |-> FALSE, fs |-> f]
             ELSE IF ~Exists(f, dir, dst) THEN [ok |-> FALSE, fs |-> f]
             ELSE SubstituteImages(
                      CopyFile(f, dir, src, dst), dir, deploy_data_path, i + 1)

\* lines 105-110: app.yaml is read, removed and written again with every
\* 'oppiaserver' replaced by the application name
RewriteAppYaml(f, dir, app) ==
    LET abs == Resolve(f, dir, APP_YAML)
    IN  WithEntry(f, abs, File(Replace(f[abs].data, PLACEHOLDER, app)))

\* preprocess_release(), called in the directory dir: whether it returned
\* (ok) or raised, and the tree it leaves
PreprocessRelease(f, dir, app) ==
    IF ~Exists(f, dir, APP_YAML) THEN [ok |-> FALSE, fs |-> f]
    ELSE LET g == RewriteAppYaml(f, dir, app)
             deploy_data_path == Join4(dir, DOTDOT, DEPLOY_DATA, app)
         IN  IF ~Exists(g, dir, deploy_data_path) THEN [ok |-> FALSE, fs |-> g]
             ELSE SubstituteImages(g, dir, deploy_data_path, 1)

\* ------------------------------------------------ the modelled environment

W == <<"w">>
TMP == <<"t", "m", "p">>
MYAPP == <<"m", "y", "a", "p", "p">>

\* an application name that leads out of the parent directory
ESCAPING_APP == <<".", ".", "/", "x">>

PROJECT_ROOT == PathOf(<<W, ROOT_NAME>>)
OTHER_DIR == PathOf(<<W, TMP>>)

\* the text of app.yaml in the project root
ROOT_APP_YAML == <<"a", "p", "p", "l", "i", "c", "a", "t", "i", "o", "n", ":", " ", "o", "p", "p", "i", "a", "s", "e", "r", "v", "e", "r", "\n">>

\* the content of the image name in the project root and in deploy_data
RootImage(name) == <<"r">> \o name
DeployImage(name) == <<"d">> \o name

RootImagePath(i) == PathOf(<<W, ROOT_NAME, STATIC, IMAGES, SPLASH_PAGE_FILES[i]>>)
DeployImagePath(i) == PathOf(<<W, DEPLOY_DATA, MYAPP, IMAGES, SPLASH_PAGE_FILES[i]>>)

ImageIndexes == 1..Len(SPLASH_PAGE_FILES)

PristineDirs ==
    {PathOf(<<>>), PathOf(<<W>>), PROJECT_ROOT, OTHER_DIR,
     PathOf(<<W, ROOT_NAME, GIT>>),
     PathOf(<<W, ROOT_NAME, STATIC>>), PathOf(<<W, ROOT_NAME, STATIC, IMAGES>>),
     PathOf(<<W, DEPLOY_DATA>>), PathOf(<<W, DEPLOY_DATA, MYAPP>>),
     PathOf(<<W, DEPLOY_DATA, MYAPP, IMAGES>>)}

\* a project root with its sibling deploy_data/myapp, as the script expects
PristineTree ==
    [q \in PristineDirs \cup {PathOf(<<W, ROOT_NAME, APP_YAML>>)}
           \cup {RootImagePath(i) : i \in ImageIndexes}
           \cup {DeployImagePath(i) : i \in ImageIndexes} |->
        IF q \in PristineDirs THEN Dir
        ELSE IF q = PathOf(<<W, ROOT_NAME, APP_YAML>>) THEN File(ROOT_APP_YAML)
        ELSE IF \E i \in ImageIndexes : q = RootImagePath(i)
             THEN File(RootImage(SPLASH_PAGE_FILES[CHOOSE i \in ImageIndexes :
                                                       q = RootImagePath(i)]))
        ELSE File(DeployImage(SPLASH_PAGE_FILES[CHOOSE i \in ImageIndexes :
                                                    q = DeployImagePath(i)]))]

\* the instants at which a run may read the clock: two within one second,
\* one in another second
Datetimes ==
    {Datetime(2014, 1, 11, 0, 0, 5, 0),
     Datetime(2014, 1, 11, 0, 0, 5, 500000),
     Datetime(2014, 11, 1, 0, 0, 5, 0)}

EarlierDatetime == Datetime(2013, 12, 31, 23, 59, 59, 0)

LogPath == PathOf(<<W, <<"d", "e", "p", "l", "o", "y", ".", "l", "o", "g">>>>)

\* ways in which the initial tree may differ from the pristine one: a path
\* the script needs is missing, the log has a line of an earlier
\* deployment, or a release directory of this very second exists already
Deviations ==
    [kind : {"missing"},
     path : {PathOf(<<W, DEPLOY_DATA, MYAPP>>), PathOf(<<W, ROOT_NAME, APP_YAML>>)}
            \cup {RootImagePath(i) : i \in ImageIndexes}
            \cup {DeployImagePath(i) : i \in ImageIndexes}]
    \cup {[kind |-> "old_log", path |-> LogPath]}
    \cup {[kind |-> "stale_release",
           path |-> PathOf(<<W, ReleaseDirName(MYAPP, dt)>>)] : dt \in Datetimes}

RECURSIVE TreeWith(_)
TreeWith(devs) ==
    IF devs = {} THEN PristineTree
    ELSE LET d == CHOOSE x \in devs : TRUE
             f == TreeWith(devs \ {d})
         IN  IF d.kind = "missing" THEN Without(f, d.path)
             ELSE IF d.kind = "old_log"
                  THEN WithEntry(f, d.path, File(LogLine(MYAPP, EarlierDatetime)))
             ELSE WithEntry(f, d.path, Dir)

\* the deviations that two runs at once are checked with: those that touch
\* what the runs share and one that makes preprocess_release() raise
RaceDeviations ==
    {d \in Deviations :
        \/ d.kind \in {"old_log", "stale_release"}
        \/ d.path = PathOf(<<W, DEPLOY_DATA, MYAPP>>)}

\* the trees with at most MaxDeviations of the deviations devs
TreesWith(deviations) ==
    {TreeWith(devs) : devs \in {s \in SUBSET deviations : Cardinality(s) <= MaxDeviations}}

\* the --app_name argument: absent, empty, or a name
NoArg == [given |-> FALSE, value |-> <<>>]
Arg(value) == [given |-> TRUE, value |-> value]
Args == {NoArg, Arg(<<>>), Arg(MYAPP), Arg(ESCAPING_APP)}

LaunchDirs == {PROJECT_ROOT, OTHER_DIR}

\* ------------------------------------------------------------------- state

VARIABLES
    fs,                 \* the file system
    fs0,                \* the file system when the runs were launched
    pc,                 \* where each run is in the script
    argv,               \* each run's --app_name argument
    launch,             \* the directory each run was launched from
    cwd,                \* each process's working directory
    APP_NAME,
    CURRENT_DATETIME,
    RELEASE_DIR_NAME,
    RELEASE_DIR_PATH,
    saved_path,         \* CD.saved_path
    invoked,            \* the external commands each run has started
    written,            \* the log lines each run has written
    exc                 \* the exception that ends the run, "none" if none

vars == <<fs, fs0, pc, argv, launch, cwd, APP_NAME, CURRENT_DATETIME,
          RELEASE_DIR_NAME, RELEASE_DIR_PATH, saved_path, invoked, written, exc>>

\* the launch of the invocations in running; the others never start
InitWith(running, deviations) ==
    /\ fs \in TreesWith(deviations)
    /\ fs0 = fs
    /\ pc = [p \in Procs |-> IF p \in running THEN "parse_args" ELSE "idle"]
    /\ argv \in [Procs -> Args]
    /\ launch \in [Procs -> LaunchDirs]
    /\ \A p \in Procs \ running : argv[p] = NoArg /\ launch[p] = PROJECT_ROOT
    /\ cwd = launch
    /\ APP_NAME = [p \in Procs |-> <<>>]
    /\ CURRENT_DATETIME = [p \in Procs |-> NoDatetime]
    /\ RELEASE_DIR_NAME = [p \in Procs |-> <<>>]
    /\ RELEASE_DIR_PATH = [p \in Procs |-> <<>>]
    /\ saved_path = [p \in Procs |-> <<>>]
    /\ invoked = [p \in Procs |-> <<>>]
    /\ written = [p \in Procs |-> <<>>]
    /\ exc = [p \in Procs |-> "none"]

Init == InitWith({1}, Deviations)

InitRace == InitWith(Procs, RaceDeviations)

\* an exception outside the with block ends the run at once
Raise(p, what) ==
    /\ pc' = [pc EXCEPT ![p] = "failed"]
    /\ exc' = [exc EXCEPT ![p] = what]

\* an exception inside the with block passes through CD.__exit__
RaiseInBlock(p, what) ==
    /\ pc' = [pc EXCEPT ![p] = "cd_exit"]
    /\ exc' = [exc EXCEPT ![p] = what]

Goto(p, label) ==
    /\ pc' = [pc EXCEPT ![p] = label]
    /\ exc' = exc

\* argument parsing that only rejects an absent --app_name
ParseArgsAcceptingEmpty(p) ==
    /\ pc[p] = "parse_args"
    /\ IF argv[p].given
       THEN /\ APP_NAME' = [APP_NAME EXCEPT ![p] = argv[p].value]
            /\ Goto(p, "compute_release")
       ELSE /\ APP_NAME' = APP_NAME
            /\ Raise(p, "no_app_name")
    /\ UNCHANGED <<fs, fs0, argv, launch, cwd, CURRENT_DATETIME, RELEASE_DIR_NAME,
                   RELEASE_DIR_PATH, saved_path, invoked, written>>

\* lines 57-61
ParseArgs(p) ==
    /\ pc[p] = "parse_args"
    /\ IF argv[p].given /\ argv[p].value # <<>>
       THEN /\ APP_NAME' = [APP_NAME EXCEPT ![p] = argv[p].value]
            /\ Goto(p, "compute_release")
       ELSE /\ APP_NAME' = APP_NAME
            /\ Raise(p, "no_app_name")
    /\ UNCHANGED <<fs, fs0, argv, launch, cwd, CURRENT_DATETIME, RELEASE_DIR_NAME,
                   RELEASE_DIR_PATH, saved_path, invoked, written>>

\* lines 63-67
ComputeRelease(p) ==
    /\ pc[p] = "compute_release"
    /\ \E now \in Datetimes :
          /\ CURRENT_DATETIME' = [CURRENT_DATETIME EXCEPT ![p] = now]
          /\ RELEASE_DIR_NAME' =
                 [RELEASE_DIR_NAME EXCEPT ![p] = ReleaseDirName(APP_NAME[p], now)]
          /\ RELEASE_DIR_PATH' =
                 [RELEASE_DIR_PATH EXCEPT ![p] =
                      ReleaseDirPath(cwd[p], ReleaseDirName(APP_NAME[p], now))]
    /\ Goto(p, "check_cwd")
    /\ UNCHANGED <<fs, fs0, argv, launch, cwd, APP_NAME, saved_path, invoked, written>>

\* a run without the check of the working directory
CheckCwdSkipped(p) ==
    /\ pc[p] = "check_cwd"
    /\ Goto(p, "ensure_release_parent")
    /\ UNCHANGED <<fs, fs0, argv, launch, cwd, APP_NAME, CURRENT_DATETIME,
                   RELEASE_DIR_NAME, RELEASE_DIR_PATH, saved_path, invoked, written>>

\* lines 136-137
CheckCwd(p) ==
    /\ pc[p] = "check_cwd"
    /\ IF EndsWith(cwd[p], ROOT_NAME)
       THEN Goto(p, "ensure_release_parent")
       ELSE Raise(p, "wrong_cwd")
    /\ UNCHANGED <<fs, fs0, argv, launch, cwd, APP_NAME, CURRENT_DATETIME,
                   RELEASE_DIR_NAME, RELEASE_DIR_PATH, saved_path, invoked, written>>

\* line 144
EnsureReleaseParent(p) ==
    /\ pc[p] = "ensure_release_parent"
    /\ fs' = EnsureDirectoryExists(fs, cwd[p], RELEASE_DIR_PATH[p])
    /\ Goto(p, "copytree")
    /\ UNCHANGED <<fs0, argv, launch, cwd, APP_NAME, CURRENT_DATETIME,
                   RELEASE_DIR_NAME, RELEASE_DIR_PATH, saved_path, invoked, written>>

\* lines 148-149
CopyTreeStep(p) ==
    /\ pc[p] = "copytree"
    /\ LET r == CopyTree(fs, cwd[p], cwd[p], RELEASE_DIR_PATH[p])
       IN  /\ fs' = r.fs
           /\ IF r.ok THEN Goto(p, "cd_enter") ELSE Raise(p, "copytree")
    /\ UNCHANGED <<fs0, argv, launch, cwd, APP_NAME, CURRENT_DATETIME,
                   RELEASE_DIR_NAME, RELEASE_DIR_PATH, saved_path, invoked, written>>

\* lines 152 and 81-83: CD.__enter__
CdEnter(p) ==
    /\ pc[p] = "cd_enter"
    /\ saved_path' = [saved_path EXCEPT ![p] = cwd[p]]
    /\ IF IsDir(fs, Resolve(fs, cwd[p], RELEASE_DIR_PATH[p]))
       THEN /\ cwd' = [cwd EXCEPT ![p] = Resolve(fs, cwd[p], RELEASE_DIR_PATH[p])]
            /\ Goto(p, "recheck")
       ELSE /\ cwd' = cwd
            /\ Raise(p, "chdir")
    /\ UNCHANGED <<fs, fs0, argv, launch, APP_NAME, CURRENT_DATETIME,
                   RELEASE_DIR_NAME, RELEASE_DIR_PATH, invoked, written>>

\* lines 153-155
Recheck(p) ==
    /\ pc[p] = "recheck"
    /\ IF EndsWith(cwd[p], RELEASE_DIR_NAME[p])
       THEN Goto(p, "preprocess")
       ELSE RaiseInBlock(p, "recheck")
    /\ UNCHANGED <<fs, fs0, argv, launch, cwd, APP_NAME, CURRENT_DATETIME,
                   RELEASE_DIR_NAME, RELEASE_DIR_PATH, saved_path, invoked, written>>

\* preprocess_release() applied to the directory of the launch
PreprocessInLaunchDir(p) ==
    /\ pc[p] = "preprocess"
    /\ LET r == PreprocessRelease(fs, launch[p], APP_NAME[p])
       IN  /\ fs' = r.fs
           /\ IF r.ok THEN Goto(p, COMMANDS[1]) ELSE RaiseInBlock(p, "preprocess")
    /\ UNCHANGED <<fs0, argv, launch, cwd, APP_NAME, CURRENT_DATETIME,
                   RELEASE_DIR_NAME, RELEASE_DIR_PATH, saved_path, invoked, written>>

\* line 160
Preprocess(p) ==
    /\ pc[p] = "preprocess"
    /\ LET r == PreprocessRelease(fs, cwd[p], APP_NAME[p])
       IN  /\ fs' = r.fs
           /\ IF r.ok THEN Goto(p, COMMANDS[1]) ELSE RaiseInBlock(p, "preprocess")
    /\ UNCHANGED <<fs0, argv, launch, cwd, APP_NAME, CURRENT_DATETIME,
                   RELEASE_DIR_NAME, RELEASE_DIR_PATH, saved_path, invoked, written>>

\* the child of run p that has not exited yet
Running(p) == invoked[p] # <<>> /\ invoked[p][Len(invoked[p])].status = "running"

IsCommand(label) == \E i \in 1..Len(COMMANDS) : COMMANDS[i] = label

\* the step after the command label
AfterCommand(label) ==
    LET i == CHOOSE j \in 1..Len(COMMANDS) : COMMANDS[j] = label
    IN  IF i < Len(COMMANDS) THEN COMMANDS[i + 1] ELSE "write_log"

\* lines 164, 168, 171: subprocess.check_output starts the command, or
\* raises OSError when the command cannot be started
Invoke(p) ==
    /\ IsCommand(pc[p])
    /\ ~Running(p)
    /\ \E started \in BOOLEAN :
          IF started
          THEN /\ invoked' = [invoked EXCEPT ![p] =
                      Append(@, [cmd |-> pc[p], dir |-> cwd[p], status |-> "running"])]
               /\ Goto(p, pc[p])
          ELSE /\ invoked' = invoked
               /\ RaiseInBlock(p, pc[p])
    /\ UNCHANGED <<fs, fs0, argv, launch, cwd, APP_NAME, CURRENT_DATETIME,
                   RELEASE_DIR_NAME, RELEASE_DIR_PATH, saved_path, written>>

\* a wait that ignores the exit status: subprocess.call
AwaitIgnoringStatus(p) ==
    /\ IsCommand(pc[p])
    /\ Running(p)
    /\ \E status \in {"exit_0", "exit_1"} :
          /\ invoked' = [invoked EXCEPT ![p][Len(invoked[p])].status = status]
          /\ Goto(p, AfterCommand(pc[p]))
    /\ UNCHANGED <<fs, fs0, argv, launch, cwd, APP_NAME, CURRENT_DATETIME,
                   RELEASE_DIR_NAME, RELEASE_DIR_PATH, saved_path, written>>

\* subprocess.check_output waits for the command to exit and raises
\* CalledProcessError on a non-zero exit status
Await(p) ==
    /\ IsCommand(pc[p])
    /\ Running(p)
    /\ \E status \in {"exit_0", "exit_1"} :
          /\ invoked' = [invoked EXCEPT ![p][Len(invoked[p])].status = status]
          /\ IF status = "exit_0"
             THEN Goto(p, AfterCommand(pc[p]))
             ELSE RaiseInBlock(p, pc[p])
    /\ UNCHANGED <<fs, fs0, argv, launch, cwd, APP_NAME, CURRENT_DATETIME,
                   RELEASE_DIR_NAME, RELEASE_DIR_PATH, saved_path, written>>

\* lines 174-177: the log entry; opening or writing the file may fail
WriteLog(p) ==
    /\ pc[p] = "write_log"
    /\ \E ok \in BOOLEAN :
          IF ok
          THEN /\ fs' = AppendToFile(
                            EnsureDirectoryExists(fs, cwd[p], LOG_FILE_PATH),
                            cwd[p], LOG_FILE_PATH,
                            LogLine(APP_NAME[p], CURRENT_DATETIME[p]))
               /\ written' = [written EXCEPT ![p] =
                      Append(@, LogLine(APP_NAME[p], CURRENT_DATETIME[p]))]
               /\ Goto(p, "cd_exit")
          ELSE /\ fs' = fs
               /\ written' = written
               /\ RaiseInBlock(p, "write_log")
    /\ UNCHANGED <<fs0, argv, launch, cwd, APP_NAME, CURRENT_DATETIME,
                   RELEASE_DIR_NAME, RELEASE_DIR_PATH, saved_path, invoked>>

\* an exit that restores the directory only when the block returned
CdExitOnSuccessOnly(dir, saved, etype) == IF etype = "none" THEN saved ELSE dir

\* the working directory after CD.__exit__(etype, value, traceback)
CdExitDir(dir, saved, etype) == saved

\* lines 85-86 and 179-181: CD.__exit__, then the exception, if any,
\* goes on and ends the run
CdExit(p) ==
    /\ pc[p] = "cd_exit"
    /\ cwd' = [cwd EXCEPT ![p] = CdExitDir(cwd[p], saved_path[p], exc[p])]
    /\ Goto(p, IF exc[p] = "none" THEN "done" ELSE "failed")
    /\ UNCHANGED <<fs, fs0, argv, launch, APP_NAME, CURRENT_DATETIME,
                   RELEASE_DIR_NAME, RELEASE_DIR_PATH, saved_path, invoked, written>>

Step(p) ==
    \/ ParseArgs(p)
    \/ ComputeRelease(p)
    \/ CheckCwd(p)
    \/ EnsureReleaseParent(p)
    \/ CopyTreeStep(p)
    \/ CdEnter(p)
    \/ Recheck(p)
    \/ Preprocess(p)
    \/ Invoke(p)
    \/ Await(p)
    \/ WriteLog(p)
    \/ CdExit(p)

Next == \E p \in Procs : Step(p)

\* one invocation of the script
Spec == Init /\ [][Next]_vars

\* two invocations at once, on one file system
SpecRace == InitRace /\ [][Next]_vars

\* ------------------------------------- preprocessing of many documents

\* the pieces the configuration documents of SpecReplace are made of
Pieces == {PLACEHOLDER, <<"o", "p", "p", "i", "a">>, <<"s", "e", "r", "v", "e", "r">>, <<"x">>}

RECURSIVE DocsOf(_)
DocsOf(n) ==
    IF n = 0 THEN {<<>>}
    ELSE DocsOf(n - 1) \cup {d \o piece : d \in DocsOf(n - 1), piece \in Pieces}

Docs == DocsOf(MaxPieces)

\* the application names of SpecReplace
ReplaceApps == {MYAPP, <<"x">>, <<"o", "p", "p", "i", "a">>, PLACEHOLDER, PLACEHOLDER \o <<"2">>}

\* the pristine tree with the text doc in app.yaml and the deploy_data
\* directory of the application app
TreeFor(doc, app) ==
    LET images == PathOf(<<W, DEPLOY_DATA, app, IMAGES>>)
        f == Makedirs(WithEntry(PristineTree, PathOf(<<W, ROOT_NAME, APP_YAML>>), File(doc)),
                      <<SEP>>, images)
    IN  [q \in DOMAIN f \cup {Join(images, SPLASH_PAGE_FILES[i]) : i \in ImageIndexes} |->
            IF q \in DOMAIN f THEN f[q]
            ELSE File(DeployImage(CHOOSE name \in {SPLASH_PAGE_FILES[i] : i \in ImageIndexes} :
                                      q = Join(images, name)))]

\* one launch from the project root whose app.yaml holds any of Docs, for
\* any of ReplaceApps
InitReplace ==
    /\ \E doc \in Docs, app \in ReplaceApps :
          /\ fs = TreeFor(doc, app)
          /\ argv = [p \in Procs |-> IF p = 1 THEN Arg(app) ELSE NoArg]
    /\ fs0 = fs
    /\ pc = [p \in Procs |-> IF p = 1 THEN "parse_args" ELSE "idle"]
    /\ launch = [p \in Procs |-> PROJECT_ROOT]
    /\ cwd = launch
    /\ APP_NAME = [p \in Procs |-> <<>>]
    /\ CURRENT_DATETIME = [p \in Procs |-> NoDatetime]
    /\ RELEASE_DIR_NAME = [p \in Procs |-> <<>>]
    /\ RELEASE_DIR_PATH = [p \in Procs |-> <<>>]
    /\ saved_path = [p \in Procs |-> <<>>]
    /\ invoked = [p \in Procs |-> <<>>]
    /\ written = [p \in Procs |-> <<>>]
    /\ exc = [p \in Procs |-> "none"]

\* the script up to the return of preprocess_release()
NextReplace ==
    \/ ParseArgs(1)
    \/ ComputeRelease(1)
    \/ CheckCwd(1)
    \/ EnsureReleaseParent(1)
    \/ CopyTreeStep(1)
    \/ CdEnter(1)
    \/ Recheck(1)
    \/ Preprocess(1)

SpecReplace == InitReplace /\ [][NextReplace]_vars

\* ------------------------------------------------------------ properties

Started == {p \in Procs : pc[p] # "idle"}

Succeeded(entry) == entry.status = "exit_0"

\* C1: the external commands of a run are started in the order build,
\* test, publish, a command is started only when every earlier one has
\* exited with status 0, so none is started while another runs or after
\* another failed
C1_CommandOrder ==
    \A p \in Procs :
        /\ Len(invoked[p]) <= Len(COMMANDS)
        /\ \A i \in 1..Len(invoked[p]) :
              /\ invoked[p][i].cmd = COMMANDS[i]
              /\ i < Len(invoked[p]) => Succeeded(invoked[p][i])
        /\ (invoked[p] # <<>> /\ invoked[p][Len(invoked[p])].status = "exit_1")
              => pc[p] \in {"cd_exit", "failed"}

\* the test command failed after the build succeeded: the run has ended
\* and publish was never started
C1_Witness ==
    \E p \in Procs :
        /\ pc[p] = "failed"
        /\ Len(invoked[p]) = 2
        /\ invoked[p][1].status = "exit_0"
        /\ invoked[p][2].cmd = "test"
        /\ invoked[p][2].status = "exit_1"

\* the with block of run p has been entered
Entered(p) == saved_path[p] # <<>>

Ended(p) == pc[p] \in {"done", "failed"}

\* C2: a run that entered the with block ends in the working directory
\* that CD saved on entry, whether the block returned or raised
C2_CwdRestored ==
    \A p \in Procs :
        (Entered(p) /\ Ended(p)) => (cwd[p] = saved_path[p] /\ cwd[p] = launch[p])

\* a run whose publish command failed inside the block has ended where
\* it started
C2_Witness ==
    \E p \in Procs :
        /\ pc[p] = "failed"
        /\ exc[p] = "publish"
        /\ Entered(p)
        /\ cwd[p] = launch[p]

LogData(f) == IF LogPath \in DOMAIN f THEN f[LogPath].data ELSE <<>>

DigitValue(c) == CHOOSE n \in 0..9 : DigitChars[n + 1] = c

IsDigit(c) == \E n \in 0..9 : DigitChars[n + 1] = c

RECURSIVE NumberOf(_)
NumberOf(s) ==
    IF s = <<>> THEN 0
    ELSE 10 * NumberOf(SubSeq(s, 1, Len(s) - 1)) + DigitValue(s[Len(s)])

\* stamp reads YYYY-MM-DD HH:MM:SS and shows the datetime dt
IsHumanStamp(stamp, dt) ==
    /\ Len(stamp) = 19
    /\ \A i \in {5, 8} : stamp[i] = "-"
    /\ stamp[11] = " "
    /\ \A i \in {14, 17} : stamp[i] = ":"
    /\ \A i \in (1..19) \ {5, 8, 11, 14, 17} : IsDigit(stamp[i])
    /\ NumberOf(SubSeq(stamp, 1, 4)) = dt.year
    /\ NumberOf(SubSeq(stamp, 6, 7)) = dt.month
    /\ NumberOf(SubSeq(stamp, 9, 10)) = dt.day
    /\ NumberOf(SubSeq(stamp, 12, 13)) = dt.hour
    /\ NumberOf(SubSeq(stamp, 15, 16)) = dt.minute
    /\ NumberOf(SubSeq(stamp, 18, 19)) = dt.second

\* line reads 'Successfully deployed to <app> at <YYYY-MM-DD HH:MM:SS>'
IsLogLine(line, app, dt) ==
    LET head == LOG_PREFIX \o app \o LOG_AT
    IN  /\ StartsWith(line, head)
        /\ Len(line) = Len(head) + 20
        /\ IsHumanStamp(SubSeq(line, Len(head) + 1, Len(head) + 19), dt)
        /\ line[Len(line)] = NEWLINE

PublishSucceeded(p) ==
    /\ Len(invoked[p]) = Len(COMMANDS)
    /\ \A i \in 1..Len(COMMANDS) : Succeeded(invoked[p][i])

RECURSIVE Flatten(_)
Flatten(lines) == IF lines = <<>> THEN <<>> ELSE Head(lines) \o Flatten(Tail(lines))

\* C3: a run writes no log line before its publish command has succeeded
\* and at most one afterwards; a run that completes has written exactly
\* one, of the form 'Successfully deployed to <app> at <timestamp>', and
\* the log file is the old log file followed by what the run wrote
C3_OneLogLine ==
    \A p \in Started :
        /\ Len(written[p]) <= 1
        /\ written[p] # <<>> => PublishSucceeded(p)
        /\ pc[p] = "done" => Len(written[p]) = 1
        /\ \A i \in 1..Len(written[p]) :
              IsLogLine(written[p][i], APP_NAME[p], CURRENT_DATETIME[p])
        /\ LogData(fs) = LogData(fs0) \o Flatten(written[p])

\* a completed run has added its line to a log that had a line already
C3_Witness ==
    \E p \in Started :
        /\ pc[p] = "done"
        /\ LogData(fs0) # <<>>
        /\ Len(LogData(fs)) > Len(LogData(fs0))

\* preprocess_release() of run p has returned
Preprocessed(p) ==
    \/ pc[p] \in {"build", "test", "publish", "write_log", "done"}
    \/ exc[p] \in {"build", "test", "publish", "write_log"}

\* the directory of the release copy of run p
ReleaseDir(p) == Resolve(fs, launch[p], RELEASE_DIR_PATH[p])

RootDocPath(p) == Resolve(fs0, launch[p], APP_YAML)

ReleaseDocPath(p) == Resolve(fs, ReleaseDir(p), APP_YAML)

\* the text of app.yaml in the project root at the launch, and in the
\* release copy now
DocBefore(p) == fs0[RootDocPath(p)].data
DocAfter(p) == fs[ReleaseDocPath(p)].data

\* after is before with the text new in every place where old stood, and
\* the rest of the text as it was
SubstitutedEverywhere(before, after, old, new) ==
    LET occ == OccurrencesOf(before, old)
        Shift(i) == Cardinality({o \in occ : o < i}) * (Len(new) - Len(old))
        Covered(i) == \E o \in occ : o <= i /\ i < o + Len(old)
    IN  /\ Len(after) = Len(before) + Cardinality(occ) * (Len(new) - Len(old))
        /\ \A o \in occ :
              SubSeq(after, o + Shift(o), o + Shift(o) + Len(new) - 1) = new
        /\ \A i \in 1..Len(before) :
              ~Covered(i) => after[i + Shift(i)] = before[i]

\* an end of a is a beginning of b: a proper non-empty one
EndMeetsStart(a, b) ==
    \E n \in 1..(Len(a) - 1) :
        n < Len(b) /\ SubSeq(a, Len(a) - n + 1, Len(a)) = SubSeq(b, 1, n)

\* neither text occurs in the other and no end of one begins the other
NoOverlap(a, b) ==
    /\ ~Contains(a, b)
    /\ ~Contains(b, a)
    /\ ~EndMeetsStart(a, b)
    /\ ~EndMeetsStart(b, a)

\* C4 as stated: for every application name, after preprocessing a document
\* that contained the placeholder contains it no more, and has the name in
\* every place of the placeholder, the rest unchanged
C4_AsClaimed ==
    \A p \in Started :
        (Preprocessed(p) /\ Contains(DocBefore(p), PLACEHOLDER)) =>
            /\ ~Contains(DocAfter(p), PLACEHOLDER)
            /\ SubstitutedEverywhere(DocBefore(p), DocAfter(p), PLACEHOLDER, APP_NAME[p])

\* C4 amended: after preprocessing, a document that contained the
\* placeholder has the application name in every place of the placeholder,
\* the rest unchanged; it contains the placeholder no more when the name
\* and the placeholder do not overlap (neither occurs in the other and no
\* end of one is a beginning of the other)
C4_Substituted ==
    \A p \in Started :
        (Preprocessed(p) /\ Contains(DocBefore(p), PLACEHOLDER)) =>
            /\ SubstitutedEverywhere(DocBefore(p), DocAfter(p), PLACEHOLDER, APP_NAME[p])
            /\ NoOverlap(APP_NAME[p], PLACEHOLDER) => ~Contains(DocAfter(p), PLACEHOLDER)

\* a document with the placeholder in two places has been preprocessed for
\* myapp
C4_Witness ==
    \E p \in Started :
        /\ Preprocessed(p)
        /\ APP_NAME[p] = MYAPP
        /\ Cardinality(OccurrencesOf(DocBefore(p), PLACEHOLDER)) = 2
        /\ Cardinality(OccurrencesOf(DocAfter(p), MYAPP)) = 2
        /\ DocAfter(p) # DocBefore(p)

\* the source of the i-th splash page file of run p, and its destination
\* in the release copy
AssetSource(p, i) ==
    Join3(Join4(ReleaseDir(p), DOTDOT, DEPLOY_DATA, APP_NAME[p]), IMAGES,
          SPLASH_PAGE_FILES[i])
AssetDestination(p, i) == Join4(ReleaseDir(p), STATIC, IMAGES, SPLASH_PAGE_FILES[i])

AssetMissing(p) ==
    \E i \in ImageIndexes :
        \/ ~Exists(fs, ReleaseDir(p), AssetSource(p, i))
        \/ ~Exists(fs, ReleaseDir(p), AssetDestination(p, i))

\* C5: while a splash page file is missing from the deploy_data directory
\* of the application, or its destination in the release copy does not
\* exist, the run gets no further than preprocess_release(), which raises:
\* no command is started and no log line is written
C5_MissingAssetStops ==
    \A p \in Started :
        AssetMissing(p) =>
            /\ invoked[p] = <<>>
            /\ written[p] = <<>>
            /\ ~Preprocessed(p)
            /\ pc[p] \in {"cd_exit", "failed"} =>
                  exc[p] \in {"no_app_name", "wrong_cwd", "copytree", "recheck", "preprocess"}

\* logo.png is missing from deploy_data: preprocess_release() raised after
\* it had copied banner.png into the release copy
C5_Witness ==
    \E p \in Started :
        /\ pc[p] = "failed"
        /\ exc[p] = "preprocess"
        /\ ~Exists(fs, ReleaseDir(p), AssetSource(p, 3))
        /\ fs[AssetDestination(p, 1)] = File(DeployImage(SPLASH_PAGE_FILES[1]))
        /\ invoked[p] = <<>>

\* C6: a run launched from a directory whose name does not end with
\* 'oppia' fails at the directory check at the latest: the file system is
\* as it was at the launch, no command is started, no log line is written
\* and the working directory is the launch directory
C6_WrongDirectoryNoEffect ==
    \A p \in Started :
        ~EndsWith(launch[p], ROOT_NAME) =>
            /\ fs = fs0
            /\ invoked[p] = <<>>
            /\ written[p] = <<>>
            /\ cwd[p] = launch[p]
            /\ pc[p] \in {"parse_args", "compute_release", "check_cwd", "failed"}
            /\ pc[p] = "failed" => exc[p] \in {"no_app_name", "wrong_cwd"}

\* a run with an application name was launched elsewhere and has failed
\* at the directory check
C6_Witness ==
    \E p \in Started :
        /\ launch[p] = OTHER_DIR
        /\ APP_NAME[p] = MYAPP
        /\ pc[p] = "failed"
        /\ exc[p] = "wrong_cwd"

\* C7: a run without an application name argument, or with an empty one,
\* fails in its first step: the file system is as it was at the launch,
\* no command is started and no log line is written
C7_NoAppNameNoEffect ==
    \A p \in Started :
        (~argv[p].given \/ argv[p].value = <<>>) =>
            /\ fs = fs0
            /\ invoked[p] = <<>>
            /\ written[p] = <<>>
            /\ cwd[p] = launch[p]
            /\ pc[p] \in {"parse_args", "failed"}
            /\ pc[p] = "failed" => exc[p] = "no_app_name"

\* a run with an empty --app_name has failed
C7_Witness ==
    \E p \in Started :
        /\ argv[p] = Arg(<<>>)
        /\ pc[p] = "failed"
        /\ exc[p] = "no_app_name"

\* run p has computed its release directory name
Named(p) == RELEASE_DIR_NAME[p] # <<>>

\* the second in which the instant dt lies
SecondOf(dt) == [dt EXCEPT !.microsecond = 0]

\* C8 as stated: any two invocations compute different release directory
\* names
C8_AsClaimed ==
    \A p, q \in Started :
        (p # q /\ Named(p) /\ Named(q)) => RELEASE_DIR_NAME[p] # RELEASE_DIR_NAME[q]

\* C8 amended: two invocations compute different release directory names
\* when their application names differ or they read the clock in different
\* seconds, and the same name when both are the same
C8_UniquePerSecond ==
    \A p, q \in Started :
        (p # q /\ Named(p) /\ Named(q)) =>
            ((RELEASE_DIR_NAME[p] = RELEASE_DIR_NAME[q])
                <=> (/\ APP_NAME[p] = APP_NAME[q]
                     /\ SecondOf(CURRENT_DATETIME[p]) = SecondOf(CURRENT_DATETIME[q])))

\* two runs for the same application that read the clock in different
\* seconds have different names
C8_Witness ==
    \E p, q \in Started :
        /\ Named(p) /\ Named(q)
        /\ APP_NAME[p] = APP_NAME[q]
        /\ SecondOf(CURRENT_DATETIME[p]) # SecondOf(CURRENT_DATETIME[q])
        /\ RELEASE_DIR_NAME[p] # RELEASE_DIR_NAME[q]

\* run p has made its release directory: its tree copy did not raise
Copied(p) ==
    \/ pc[p] \in {"cd_enter", "recheck", "preprocess", "build", "test", "publish",
                  "write_log", "cd_exit", "done"}
    \/ pc[p] = "failed" /\ exc[p] \notin {"no_app_name", "wrong_cwd", "copytree"}

\* run p works in its release directory
Working(p) ==
    pc[p] \in {"recheck", "preprocess", "build", "test", "publish", "write_log", "cd_exit"}

\* no two runs have the same release directory, and a run works in its own
ExclusiveRelease ==
    /\ \A p, q \in Started : (p # q /\ Copied(p) /\ Copied(q)) => ReleaseDir(p) # ReleaseDir(q)
    /\ \A p \in Started : Working(p) => cwd[p] = ReleaseDir(p)
    /\ \A p \in Started : (pc[p] = "failed" /\ exc[p] = "copytree") =>
                              (invoked[p] = <<>> /\ written[p] = <<>>)

\* the tree copy of a run whose release directory exists raises and leaves
\* the file system as it is
CopyOntoExistingAborts ==
    \A p \in Started :
        (/\ pc[p] = "copytree"
         /\ pc'[p] # "copytree"
         /\ Exists(fs, cwd[p], RELEASE_DIR_PATH[p])) =>
            /\ fs' = fs
            /\ pc'[p] = "failed"
            /\ exc'[p] = "copytree"
            /\ invoked'[p] = <<>>

\* C9: under every interleaving of two runs, at most one of them gets past
\* the tree copy into a given release directory and works in it; a run
\* whose release directory exists when its tree copy starts fails there,
\* changes nothing in the file system and starts no command
C9_ReleaseOwnedByOneRun == []ExclusiveRelease /\ [][CopyOntoExistingAborts]_vars

\* two runs computed the same release directory: one has completed its
\* deployment, the other failed at the tree copy
C9_Witness ==
    \E p, q \in Started :
        /\ p # q
        /\ RELEASE_DIR_PATH[p] = RELEASE_DIR_PATH[q]
        /\ pc[p] = "done"
        /\ pc[q] = "failed"
        /\ exc[q] = "copytree"

\* the entry of the file system f at the path abs, or none
EntryAt(f, abs) == IF abs \in DOMAIN f THEN <<f[abs]>> ELSE <<>>

\* app.yaml and the static images of the directory run p was launched from
RootFiles(p) ==
    {Join(launch[p], APP_YAML)}
        \cup {Join4(launch[p], STATIC, IMAGES, SPLASH_PAGE_FILES[i]) : i \in ImageIndexes}

RootUntouched ==
    \A p \in Started : \A q \in RootFiles(p) : EntryAt(fs, q) = EntryAt(fs0, q)

\* preprocess_release() runs in the release directory and changes nothing
\* outside it
PreprocessInsideRelease ==
    \A p \in Started :
        (pc[p] = "preprocess" /\ pc'[p] # "preprocess") =>
            /\ cwd[p] = ReleaseDir(p)
            /\ cwd[p] # launch[p]
            /\ \A q \in DOMAIN fs \cup DOMAIN fs' :
                  EntryAt(fs', q) # EntryAt(fs, q) => IsUnder(q, ReleaseDir(p))

\* C10: app.yaml and the static images of the project root are at every
\* moment of a run what they were at its launch; preprocess_release() runs
\* with the release directory as working directory and changes only paths
\* inside the release copy
C10_RootUnchanged == []RootUntouched /\ [][PreprocessInsideRelease]_vars

\* a completed run: app.yaml and banner.png of the release copy differ
\* from those of the project root, which are as they were
C10_Witness ==
    \E p \in Started :
        /\ pc[p] = "done"
        /\ RootUntouched
        /\ fs[ReleaseDocPath(p)] # fs0[RootDocPath(p)]
        /\ fs[AssetDestination(p, 1)] # fs0[Join4(launch[p], STATIC, IMAGES, SPLASH_PAGE_FILES[1])]

====
